---- MODULE Spec2Model ----
(***************************************************************************)
(* Model of src/amr_data_pipeline.py: class AMRDataPipeline.                *)
(*                                                                         *)
(* The pipeline object holds one mutable field, kafka_producer.  Its three *)
(* ingest methods (process_market_data, analyze_customer_behavior,         *)
(* collect_ecosystem_feedback) each wrap their whole body in               *)
(* try / except Exception and log either "Sent ..." or "Failed ...".       *)
(* initialize_producer and shutdown manage the producer.                   *)
(*                                                                         *)
(* The methods may be invoked by several callers at once, so every method  *)
(* is cut at its calls into external collaborators: the tokenizer and the  *)
(* model, kafka_producer.send, kafka_producer.close, and the logger (which *)
(* takes the logging lock and writes the file).  An ingest call runs       *)
(* entry, [inference], send, log on its success path and turns to its      *)
(* except clause from any of them; shutdown runs test, close, log.         *)
(*                                                                         *)
(* The tokenizer, the model and the Kafka producer are external libraries: *)
(* their results are drawn nondeterministically (a score or an exception,  *)
(* a delivered or a failed send), and so is the behaviour of an exception  *)
(* of theirs (whether `except Exception` matches it, whether str() of it   *)
(* returns).                                                               *)
(***************************************************************************)
EXTENDS Integers, Sequences, FiniteSets, TLC

VARIABLES
    kafka_producer,  \* self.kafka_producer: None, or the producer object
    pc,              \* per caller: where it stands inside a method
    cur,             \* per caller: index in events of the ingest call it runs
    events,          \* one record per ingest call, in submission order
    broker           \* messages the producer accepted, in send order

vars == <<kafka_producer, pc, cur, events, broker>>

----------------------------------------------------------------------------
(* Bounds of the model *)

\* number of ingest calls explored in one run
MaxEvents == 2

\* largest number of consecutive transient failures a send is met with
MaxFails == 5

\* failure counts tried: none, a single one, and MaxFails
FailCounts == {0, 1, MaxFails}

\* the concurrent callers of the pipeline
Callers == {"caller1", "caller2"}

----------------------------------------------------------------------------
(* Program constants *)

\* the sentiment threshold 0.5 of line 66, in tenths
Threshold == 5

\* sentiment scores the model may return, in tenths: 0.5 itself and the next
\* value above it (scores below 0.5 take the same branch as 0.5)
Scores == {Threshold, Threshold + 1}

\* what the tokenizer and the model give for one text: a score, or an
\* exception, which `except Exception` matches (caught) or not.  Both are
\* external; line 64 also raises when logits[0][0] is not a single number,
\* which is an exception like any other here.
InferenceOutcomes ==
    {[raises |-> TRUE, caught |-> c, score |-> 0] : c \in BOOLEAN}
       \cup {[raises |-> FALSE, caught |-> TRUE, score |-> s] : s \in Scores}

\* self.kafka_producer = None
None == [state |-> "None"]

\* kafka.Producer(bootstrap_servers=...): a fresh, open producer
NewProducer == [state |-> "open"]

\* analysis_result before line 71 binds it
NoValue == [unbound |-> TRUE]

\* a value whose repr() raises (an object with a raising __repr__, a
\* dictionary nested too deep): the f-string of the "Sent ..." line raises on it
Unprintable == "<repr raises>"

\* market data dictionaries handed to process_market_data
MarketInputs ==
    { [timestamp |-> "2023-10-05T12:00:00", sector |-> "Technology", trend |-> "Positive"],
      [sector |-> "Tech"] }

\* interaction dictionaries handed to analyze_customer_behavior
CustomerInputs ==
    { [customer_id |-> "C1234", text |-> "Great product! I love it!"],
      [customer_id |-> "C1234"],
      [text |-> "Great product! I love it!"] }

\* feedback dictionaries handed to collect_ecosystem_feedback; the second has
\* no timestamp, and a message that cannot be printed
FeedbackInputs ==
    { [timestamp |-> "2023-10-05T12:30:00", feedback_type |-> "positive",
       message |-> "Customers are responding well to new features"],
      [feedback_type |-> "positive", message |-> Unprintable] }

----------------------------------------------------------------------------
(* Pure parts of the methods *)

\* Topic with the literal of process_market_data pasted into the customer method
TopicCopyPaste(op) ==
    CASE op = "process_market_data" -> "market_trends"
      [] op = "analyze_customer_behavior" -> "market_trends"
      [] op = "collect_ecosystem_feedback" -> "ecosystem_feedback"

\* the topic literal each method passes to kafka_producer.send
Topic(op) ==
    CASE op = "process_market_data" -> "market_trends"
      [] op = "analyze_customer_behavior" -> "customer_behavior"
      [] op = "collect_ecosystem_feedback" -> "ecosystem_feedback"

\* Feedback with the comparison written >= instead of >
FeedbackInclusive(sentiment_score) ==
    IF sentiment_score >= Threshold THEN "positive" ELSE "negative"

\* lines 66-69: if sentiment_score > 0.5: 'positive' else: 'negative'
Feedback(sentiment_score) ==
    IF sentiment_score > Threshold THEN "positive" ELSE "negative"

\* the exceptions Python itself raises in these methods: KeyError of a
\* dictionary lookup, AttributeError of None.send.  They derive from Exception
\* and str() of them returns; an exception of a collaborator may do neither.
BuiltIn(err) == err \in {"KeyError", "AttributeError"}

\* whether `except Exception` may match an exception raised as err
CaughtChoices(err) == IF BuiltIn(err) THEN {TRUE} ELSE BOOLEAN

\* whether str(e) in the except clause may return for an exception raised as err
StrChoices(err) == IF BuiltIn(err) THEN {TRUE} ELSE BOOLEAN

\* an exception raised as err inside the try.  caught: it derives from
\* Exception, the except clause is entered and the call goes on there;
\* otherwise it passes the clause and leaves the method, no record written.
Raise(e, err, caught) ==
    IF caught
    THEN [e EXCEPT !.error = err]
    ELSE [e EXCEPT !.error = err, !.status = "Raised", !.escaped = err]

\* the except clause of an ingest method (51, 79, 91):
\* logger.error(f"Failed ...: {str(e)}").  When str(e) raises, that exception
\* leaves the method from inside the handler and no record is written.
OnException(e, str_ok) ==
    IF str_ok
    THEN [e EXCEPT !.status = "Failed", !.logged = @ + 1]
    ELSE [e EXCEPT !.status = "Raised", !.escaped = "HandlerError"]

\* the success path after send: logger.info(...) wrote its record
OnSent(e) ==
    [e EXCEPT !.status = "Sent", !.logged = @ + 1]

\* whether f"...{value}" can be built: repr() of every field returns
Printable(value) == \A k \in DOMAIN value : value[k] # Unprintable

\* the log line after the send (49, 77, 89), still inside the try: building the
\* message may raise, for a message the producer has already taken
LogResult(e, caught) ==
    IF Printable(e.value) THEN OnSent(e) ELSE Raise(e, "FormatError", caught)

\* the frame of a fresh ingest call
NewEvent(op, data) ==
    [ op |-> op, data |-> data,
      enrich |-> "none",          \* "none" | "failed" | "ok"
      score |-> 0,                \* sentiment_score, when enrich = "ok"
      value |-> IF op = "analyze_customer_behavior" THEN NoValue ELSE data,
      producer |-> "unreached",   \* kafka_producer when line `send` was reached
      fails |-> 0,                \* transient failures the broker had pending then
      attempts |-> 0,             \* calls of kafka_producer.send made
      status |-> "running",       \* "running" | "Sent" | "Failed" (both: the
                                  \* record logged, method returned) | "Raised"
                                  \* (left by an exception)
      error |-> "none",           \* the exception raised inside the try
      logged |-> 0,               \* log records written for this call
      escaped |-> "none" ]        \* exception that reached the caller

\* the call has ended, by return or by exception
Returned(e) == e.status # "running"

\* where a caller stands after a step that left its call as e: out of the
\* method, in the except clause, or at the next line
PcAfter(e, next) ==
    IF Returned(e) THEN "idle" ELSE IF e.error # "none" THEN "except" ELSE next

----------------------------------------------------------------------------
(* Init: the state after AMRDataPipeline() *)

Init ==
    /\ kafka_producer = None
    /\ pc = [t \in Callers |-> "idle"]
    /\ cur = [t \in Callers |-> 0]
    /\ events = <<>>
    /\ broker = <<>>

----------------------------------------------------------------------------
(* The ingest methods *)

\* entry of an ingest method: the call begins, nothing external is touched yet
Submit(t, op, data) ==
    /\ pc[t] = "idle"
    /\ Len(events) < MaxEvents
    /\ events' = Append(events, NewEvent(op, data))
    /\ cur' = [cur EXCEPT ![t] = Len(events) + 1]
    /\ pc' = [pc EXCEPT ![t] =
                IF op = "analyze_customer_behavior" THEN "infer" ELSE "send"]
    /\ UNCHANGED <<kafka_producer, broker>>

\* process_market_data with a check of 'timestamp' ahead of the send
process_market_data_validating(t, data) ==
    IF "timestamp" \in DOMAIN data
    THEN Submit(t, "process_market_data", data)
    ELSE /\ pc[t] = "idle"
         /\ Len(events) < MaxEvents
         /\ events' = Append(events,
                OnException(Raise(NewEvent("process_market_data", data),
                                  "ValidationError", TRUE), TRUE))
         /\ UNCHANGED <<kafka_producer, pc, cur, broker>>

process_market_data(t, data) == Submit(t, "process_market_data", data)

analyze_customer_behavior(t, data) == Submit(t, "analyze_customer_behavior", data)

collect_ecosystem_feedback(t, data) == Submit(t, "collect_ecosystem_feedback", data)

\* EnrichResult with the inference in a try of its own: on its failure the
\* method goes on and sends the result without a sentiment
EnrichResultPublishAnyway(e, outcome) ==
    IF "text" \notin DOMAIN e.data
    THEN Raise(e, "KeyError", TRUE)
    ELSE IF "customer_id" \notin DOMAIN e.data
    THEN Raise([e EXCEPT !.enrich = IF outcome.raises THEN "failed" ELSE "ok",
                         !.score = outcome.score], "KeyError", TRUE)
    ELSE IF outcome.raises
    THEN [e EXCEPT !.enrich = "failed",
                   !.value = [customer_id |-> e.data.customer_id]]
    ELSE [e EXCEPT !.enrich = "ok", !.score = outcome.score,
                   !.value = [customer_id |-> e.data.customer_id,
                              sentiment |-> Feedback(outcome.score)]]

\* lines 61-74 of analyze_customer_behavior.  outcome is what the tokenizer and
\* the model give (InferenceOutcomes): an exception of theirs, or a score.
\*   line 61  interaction_data['text']         KeyError when absent
\*   61-64    tokenizer, model, float(...)     may raise
\*   66-69    feedback
\*   72       interaction_data['customer_id']  KeyError when absent
EnrichResult(e, outcome) ==
    IF "text" \notin DOMAIN e.data
    THEN Raise(e, "KeyError", TRUE)
    ELSE IF outcome.raises
    THEN Raise([e EXCEPT !.enrich = "failed"], "InferenceError", outcome.caught)
    ELSE IF "customer_id" \notin DOMAIN e.data
    THEN Raise([e EXCEPT !.enrich = "ok", !.score = outcome.score], "KeyError", TRUE)
    ELSE [e EXCEPT !.enrich = "ok", !.score = outcome.score,
                   !.value = [customer_id |-> e.data.customer_id,
                              sentiment |-> Feedback(outcome.score)]]

\* the step of analyze_customer_behavior between its entry and its send: the
\* call goes on to the send line, or an exception takes it to the except
\* clause or out of the method
sentiment_analysis(t) ==
    /\ pc[t] = "infer"
    /\ \E outcome \in InferenceOutcomes :
         LET i == cur[t]
             r == EnrichResult(events[i], outcome)
         IN /\ events' = [events EXCEPT ![i] = r]
            /\ pc' = [pc EXCEPT ![t] = PcAfter(r, "send")]
            /\ cur' = [cur EXCEPT ![t] = IF Returned(r) THEN 0 ELSE i]
    /\ UNCHANGED <<kafka_producer, broker>>

\* Attempts with a closed flag checked ahead of the send
AttemptsRefusingClosed(p) == IF p.state = "open" THEN 1 ELSE 0

\* how many times one ingest call invokes kafka_producer.send: the attribute
\* lookup on None raises before any call; otherwise exactly one call, no retry
Attempts(p) == IF p.state = "None" THEN 0 ELSE 1

\* Delivered with the send retried until the broker accepts, MaxFails attempts
DeliveredWithRetry(p, n, accept) == n < MaxFails /\ (p.state = "open" \/ accept)

\* whether that one send is accepted.  n is the number of transient failures
\* the broker answers with before it would accept; a closed producer answers
\* as its library decides (accept)
Delivered(p, n, accept) == n = 0 /\ (p.state = "open" \/ accept)

\* the send line (48, 76, 88).  When it returns, the call goes on to its log
\* line; when it raises (None has no send, or the producer's exception, which
\* `except Exception` matches or not), to the except clause or out.
SendResult(e, p, ans) ==
    LET e1 == [e EXCEPT !.producer = p.state, !.fails = ans.n,
                        !.attempts = Attempts(p)]
    IN IF p.state = "None" THEN Raise(e1, "AttributeError", TRUE)
       ELSE IF Delivered(p, ans.n, ans.accept) THEN e1
       ELSE Raise(e1, "DeliveryError", ans.caught)

\* Publish with the message put ahead of those already sent
PublishFront(log, msg) == <<msg>> \o log

\* the producer hands an accepted message to the topic's log
Publish(log, msg) == Append(log, msg)

\* what the broker may answer a send on producer p with: the failures pending
\* (open producer), whether a closed producer still accepts, and whether the
\* exception of a failed send derives from Exception
BrokerAnswers(p) ==
    CASE p.state = "open" ->
            {[n |-> 0, accept |-> TRUE, caught |-> TRUE]}
               \cup {[n |-> n, accept |-> TRUE, caught |-> c] :
                        n \in FailCounts \ {0}, c \in BOOLEAN}
      [] p.state = "closed" ->
            {[n |-> 0, accept |-> TRUE, caught |-> TRUE]}
               \cup {[n |-> 0, accept |-> FALSE, caught |-> c] : c \in BOOLEAN}
      [] OTHER -> {[n |-> 0, accept |-> FALSE, caught |-> TRUE]}

\* self.kafka_producer.send(topic, value=...): the message is with the
\* producer and the call goes on to its log line, or the send raised
send(t) ==
    /\ pc[t] = "send"
    /\ \E ans \in BrokerAnswers(kafka_producer) :
         LET i == cur[t]
             e == events[i]
             r == SendResult(e, kafka_producer, ans)
         IN /\ events' = [events EXCEPT ![i] = r]
            /\ broker' = IF r.error = "none"
                         THEN Publish(broker, [topic |-> Topic(e.op),
                                               value |-> e.value, call |-> i])
                         ELSE broker
            /\ pc' = [pc EXCEPT ![t] = PcAfter(r, "log")]
            /\ cur' = [cur EXCEPT ![t] = IF Returned(r) THEN 0 ELSE i]
    /\ UNCHANGED kafka_producer

\* logger.info(f"Sent ...: {value}") and the return of the method; other
\* callers and shutdown may run between the send and this line.  When
\* building the message raises, the call turns to the except clause or leaves.
log_sent(t) ==
    /\ pc[t] = "log"
    /\ \E caught \in CaughtChoices("FormatError") :
         LET i == cur[t]
             r == LogResult(events[i], caught)
         IN /\ events' = [events EXCEPT ![i] = r]
            /\ pc' = [pc EXCEPT ![t] = PcAfter(r, "idle")]
            /\ cur' = [cur EXCEPT ![t] = IF Returned(r) THEN 0 ELSE i]
    /\ UNCHANGED <<kafka_producer, broker>>

\* except Exception as e: logger.error(f"Failed ...: {str(e)}") and the return;
\* other callers, initialize_producer and shutdown may run between the raise
\* and this line
log_failed(t) ==
    /\ pc[t] = "except"
    /\ LET i == cur[t]
       IN \E str_ok \in StrChoices(events[i].error) :
             events' = [events EXCEPT ![i] = OnException(events[i], str_ok)]
    /\ pc' = [pc EXCEPT ![t] = "idle"]
    /\ cur' = [cur EXCEPT ![t] = 0]
    /\ UNCHANGED <<kafka_producer, broker>>

----------------------------------------------------------------------------
(* The producer: initialize_producer and shutdown *)

\* initialize_producer: kafka.Producer(...) either connects, and the field is
\* assigned, or raises; the method has no try, so the exception reaches the
\* caller and the field keeps its old value
initialize_producer ==
    \/ /\ kafka_producer' = NewProducer
       /\ UNCHANGED <<pc, cur, events, broker>>
    \/ UNCHANGED vars

\* shutdown, line 97: `if self.kafka_producer is not None`.  None: the method
\* returns, close() is not called.  Otherwise it goes on to close().
shutdown(t) ==
    /\ pc[t] = "idle"
    /\ pc' = [pc EXCEPT ![t] = IF kafka_producer = None THEN "idle" ELSE "close"]
    /\ UNCHANGED <<kafka_producer, cur, events, broker>>

\* self.kafka_producer.close(), line 99, on the producer the field holds
\* then: it returns with the producer closed, or raises; an exception that
\* `except Exception` does not match leaves shutdown at once.  The field is
\* not reset and no flag is set.
close(t) ==
    /\ pc[t] = "close"
    /\ \/ /\ kafka_producer' = [kafka_producer EXCEPT !.state = "closed"]
          /\ pc' = [pc EXCEPT ![t] = "close_log"]
       \/ \E caught \in BOOLEAN :
          /\ pc' = [pc EXCEPT ![t] = IF caught THEN "close_except" ELSE "idle"]
          /\ UNCHANGED kafka_producer
    /\ UNCHANGED <<cur, events, broker>>

\* lines 100 and 102: logger.info("Kafka producer closed successfully"), or
\* the except clause's logger.error(f"...{str(e)}"); then shutdown ends, by
\* return or, when str(e) raises, by that exception
log_closed(t) ==
    /\ pc[t] \in {"close_log", "close_except"}
    /\ pc' = [pc EXCEPT ![t] = "idle"]
    /\ UNCHANGED <<kafka_producer, cur, events, broker>>

Next ==
    \/ \E t \in Callers : \E data \in MarketInputs : process_market_data(t, data)
    \/ \E t \in Callers : \E data \in CustomerInputs : analyze_customer_behavior(t, data)
    \/ \E t \in Callers : \E data \in FeedbackInputs : collect_ecosystem_feedback(t, data)
    \/ \E t \in Callers : sentiment_analysis(t)
    \/ \E t \in Callers : send(t)
    \/ \E t \in Callers : log_sent(t)
    \/ \E t \in Callers : log_failed(t)
    \/ initialize_producer
    \/ \E t \in Callers : shutdown(t)
    \/ \E t \in Callers : close(t)
    \/ \E t \in Callers : log_closed(t)

Spec == Init /\ [][Next]_vars

----------------------------------------------------------------------------
(* Vocabulary of the properties *)

Calls == 1..Len(events)

Msgs == 1..Len(broker)

\* the messages in the broker that came from call i
MsgsOf(i) == {k \in Msgs : broker[k].call = i}

IsCustomer(e) == e.op = "analyze_customer_behavior"

\* the fields the specification requires of an event of each kind
RequiredFields(op) ==
    IF op = "process_market_data" THEN {"timestamp", "sector", "trend"}
    ELSE IF op = "analyze_customer_behavior" THEN {"customer_id", "text"}
    ELSE {"timestamp", "feedback_type", "message"}

Valid(e) == RequiredFields(e.op) \subseteq DOMAIN e.data

\* the topic the specification fixes for an event of each kind
FixedTopic(op) ==
    IF op = "process_market_data" THEN "market_trends"
    ELSE IF op = "analyze_customer_behavior" THEN "customer_behavior"
    ELSE "ecosystem_feedback"

\* a call that met no failure of its collaborators
Undisturbed(e) ==
    /\ e.producer = "open"
    /\ e.fails = 0
    /\ IsCustomer(e) => e.enrich = "ok"

\* a call that ended the way the methods are written to end: by return, with
\* its one record in the log
Recorded(e) == e.status \in {"Sent", "Failed"} /\ e.logged = 1 /\ e.escaped = "none"

\* a call that ended by an exception at its caller, with no record
Escaped(e) == e.status = "Raised" /\ e.logged = 0 /\ e.escaped # "none"

\* the exception at the caller came out of the except clause: the call had
\* raised an error (an exception derived from Exception), and str() of it raised
ErrorEscaped(e) == e.escaped = "HandlerError"

\* the exception at the caller is one `except Exception` does not match
\* (KeyboardInterrupt, SystemExit, another class outside Exception)
ExitEscaped(e) == e.escaped \notin {"none", "HandlerError"}

----------------------------------------------------------------------------
(* C1 *)

\* C1: every message an ingest method publishes is on the fixed topic of its
\* kind (market_trends, customer_behavior, ecosystem_feedback) and on no other;
\* a call publishes at most one message; and a valid event whose call met an
\* open producer, an accepting broker and a working model is published there.
C1_FixedTopic ==
    /\ \A k \in Msgs : broker[k].topic = FixedTopic(events[broker[k].call].op)
    /\ \A i \in Calls : Cardinality(MsgsOf(i)) <= 1
    /\ \A i \in Calls :
         (Valid(events[i]) /\ Undisturbed(events[i]))
           => \E k \in MsgsOf(i) : broker[k].topic = FixedTopic(events[i].op)

\* two valid events of different kinds, both published
C1_Witness ==
    \E j, k \in Msgs :
       /\ broker[j].topic = "customer_behavior"
       /\ broker[k].topic \in {"market_trends", "ecosystem_feedback"}
       /\ Valid(events[broker[j].call])
       /\ Valid(events[broker[k].call])

----------------------------------------------------------------------------
(* C2 *)

\* C2: a published message carries a sentiment exactly when it comes from a
\* customer interaction whose enrichment succeeded; the sentiment is positive
\* exactly when the score is strictly above 0.5 and negative otherwise (0.5
\* itself is negative); market and feedback messages are the event as given.
C2_Sentiment ==
    \A k \in Msgs :
       LET m == broker[k]
           e == events[m.call]
       IN /\ ("sentiment" \in DOMAIN m.value) <=> (IsCustomer(e) /\ e.enrich = "ok")
          /\ IsCustomer(e) =>
               /\ e.score > Threshold => m.value.sentiment = "positive"
               /\ e.score <= Threshold => m.value.sentiment = "negative"
               /\ m.value.customer_id = e.data.customer_id
          /\ ~IsCustomer(e) => m.value = e.data

\* a customer message scored exactly 0.5 and one scored above, both published
C2_Witness ==
    \E j, k \in Msgs :
       /\ events[broker[j].call].score = Threshold
       /\ broker[j].value.sentiment = "negative"
       /\ events[broker[k].call].score > Threshold
       /\ broker[k].value.sentiment = "positive"

----------------------------------------------------------------------------
(* C3 *)

C3_StillPublished ==
    \A t \in Callers :
       (/\ pc[t] = "infer"
        /\ Valid(events[cur[t]])
        /\ kafka_producer.state = "open"
        /\ pc'[t] \in {"send", "except"})
          => pc'[t] = "send"

\* C3 as claimed: a valid customer interaction whose enrichment is run while
\* the producer is open goes on to be published whatever the enrichment gave:
\* an error of the tokenizer or the model does not take it off the way to the
\* send line.
C3_Original == [][C3_StillPublished]_vars

\* C3: a failure of the enrichment ends the call ahead of its send line and
\* the event is not published: no send is attempted and no message reaches
\* the broker.  The call then ends in its except clause with one "Failed"
\* record and nothing raised, or, when the exception passes the clause or
\* breaks the handler, with the exception at the caller and no record.
C3_EnrichmentFailureDrops ==
    \A i \in Calls :
       LET e == events[i] IN
       e.enrich = "failed" =>
          /\ e.error = "InferenceError"
          /\ e.producer = "unreached"
          /\ e.attempts = 0
          /\ MsgsOf(i) = {}
          /\ e.status # "Sent"
          /\ Returned(e) => (Recorded(e) \/ Escaped(e))
          /\ ~Returned(e) => e.logged = 0

\* an enrichment failure met while the producer was open, caught and logged
C3_Witness ==
    \E i \in Calls :
       /\ events[i].enrich = "failed"
       /\ Valid(events[i])
       /\ events[i].status = "Failed"
       /\ kafka_producer.state = "open"

----------------------------------------------------------------------------
(* C4 *)

\* C4 as claimed: no broker send is made for an event that misses a required
\* field of its kind.
C4_Original ==
    \A i \in Calls :
       (Recorded(events[i]) /\ ~Valid(events[i])) => events[i].attempts = 0

\* C4: only analyze_customer_behavior turns an event with a missing field
\* away, by the KeyError of the lookup: a missing text before enrichment is
\* touched, a missing customer_id after enrichment has run; either way no send
\* is made and the KeyError is logged.  process_market_data and
\* collect_ecosystem_feedback do not look at the event: they reach the send
\* line whatever its fields, make one send when a producer is present, and a
\* delivered message is the event as given.
C4_NoValidation ==
    \A i \in Calls :
       LET e == events[i] IN
       /\ (IsCustomer(e) /\ ~Valid(e)) => (e.attempts = 0 /\ MsgsOf(i) = {})
       /\ Returned(e) =>
            /\ (IsCustomer(e) /\ "text" \notin DOMAIN e.data) =>
                  /\ e.enrich = "none"
                  /\ e.error = "KeyError"
                  /\ Recorded(e) /\ e.status = "Failed"
            /\ (IsCustomer(e) /\ "text" \in DOMAIN e.data
                              /\ "customer_id" \notin DOMAIN e.data) =>
                  /\ e.enrich # "none"
                  /\ e.enrich = "ok" =>
                       (e.error = "KeyError" /\ Recorded(e) /\ e.status = "Failed")
                  /\ e.enrich = "failed" => e.error = "InferenceError"
            /\ ~IsCustomer(e) =>
                  /\ e.producer # "unreached"
                  /\ e.producer # "None" => e.attempts = 1
                  /\ e.error \notin {"KeyError", "ValidationError"}
                  /\ e.status = "Sent" => \E k \in MsgsOf(i) : broker[k].value = e.data

\* a market signal without timestamp that was sent, and a customer
\* interaction without customer_id that was turned away after enrichment
C4_Witness ==
    \E i, j \in Calls :
       /\ events[i].op = "process_market_data"
       /\ ~Valid(events[i])
       /\ events[i].status = "Sent"
       /\ IsCustomer(events[j])
       /\ "customer_id" \notin DOMAIN events[j].data
       /\ events[j].enrich = "ok"
       /\ events[j].status = "Failed"

----------------------------------------------------------------------------
(* C5 *)

\* C5: every ingest call that has ended (other than by an exception outside
\* Exception, which the methods let pass) left exactly one outcome, Sent or
\* Failed, recorded for the caller; no call ends with neither a broker send
\* nor a reported Failed outcome, and none is recorded twice.
C5_OneOutcome ==
    \A i \in Calls :
       LET e == events[i] IN
       /\ e.logged <= 1
       /\ (Returned(e) /\ ~ExitEscaped(e)) =>
            /\ e.status \in {"Sent", "Failed"}
            /\ e.logged = 1
            /\ MsgsOf(i) = {} => e.status = "Failed"

\* a call whose send raised an error and that ended with nothing sent and no
\* record, beside a call that ended with its one record
C5_Witness ==
    \E i, j \in Calls :
       /\ events[i].error = "DeliveryError"
       /\ ErrorEscaped(events[i])
       /\ MsgsOf(i) = {}
       /\ events[i].logged = 0
       /\ Recorded(events[j])

----------------------------------------------------------------------------
(* C6 *)

\* C6 as claimed: the send of a valid event that the broker fails N times
\* before accepting ends delivered when N <= 4 and Failed when N >= 5.
C6_Original ==
    \A i \in Calls :
       (Recorded(events[i]) /\ Valid(events[i]) /\ events[i].producer = "open") =>
          /\ events[i].fails <= 4 => MsgsOf(i) # {}
          /\ events[i].fails >= 5 => (MsgsOf(i) = {} /\ events[i].status = "Failed")

C6_SingleAttempt ==
    \A i \in Calls :
       LET e == events[i] IN
       /\ e.attempts <= 1
       /\ e.producer = "open" =>
            /\ e.attempts = 1
            /\ MsgsOf(i) # {} <=> e.fails = 0
            /\ e.fails >= 1 => (e.error = "DeliveryError" /\ e.status # "Sent")
            /\ e.fails = 0 => e.error \in {"none", "FormatError"}
       /\ e.status # "running" <=> (Recorded(e) \/ Escaped(e))

C6_Terminal ==
    \A i \in Calls :
       LET e == events[i] IN
       /\ Len(events') >= i
       /\ events'[i].attempts >= e.attempts
       /\ Returned(e) => events'[i] = e

\* C6: a send is attempted once and never retried: against an open producer
\* the message is delivered when the broker fails it 0 times, and for every
\* N >= 1 the one send raises, nothing is delivered and the call does not end
\* Sent; a call goes from running to one end (Sent, Failed, or an exception
\* at its caller), with no retry state between, and does not change after.
C6_NoRetry == []C6_SingleAttempt /\ [][C6_Terminal]_vars

\* a send the broker failed once, ended Failed after its one attempt
C6_Witness ==
    \E i \in Calls :
       /\ events[i].producer = "open"
       /\ events[i].fails = 1
       /\ events[i].attempts = 1
       /\ events[i].status = "Failed"

----------------------------------------------------------------------------
(* C7 *)

\* C7: no error of an ingest call (an exception derived from Exception: a
\* missing field, an enrichment failure, the missing producer, a send
\* failure) reaches the caller as an exception.
C7_OnlyStartupRaises ==
    \A i \in Calls : ~ErrorEscaped(events[i])

\* an enrichment failure and a send failure, both entered the except clause
\* and both reached their callers from there
C7_Witness ==
    \E i, j \in Calls :
       /\ events[i].error = "InferenceError"
       /\ ErrorEscaped(events[i])
       /\ events[j].error = "DeliveryError"
       /\ ErrorEscaped(events[j])

----------------------------------------------------------------------------
(* C8 *)

\* C8 as claimed: no ingest call, of a valid event at that, attempts a send on
\* a closed producer.
C8_Original ==
    \A i \in Calls :
       Valid(events[i]) => ~(events[i].producer = "closed" /\ events[i].attempts > 0)

C8_ClosedStillUsed ==
    \A i \in Calls :
       LET e == events[i] IN
       e.producer = "closed" =>
          /\ e.attempts = 1
          /\ e.fails = 0
          /\ e.status = "Sent" => MsgsOf(i) # {}
          /\ MsgsOf(i) = {} => (e.error = "DeliveryError" /\ e.status # "Sent")
          /\ Returned(e) => (Recorded(e) \/ Escaped(e))

C8_NoReset ==
    /\ kafka_producer # None => kafka_producer' # None
    /\ kafka_producer.state = "closed" =>
          (kafka_producer' = kafka_producer \/ kafka_producer' = NewProducer)
    /\ (kafka_producer.state = "open" /\ kafka_producer'.state = "closed") =>
          UNCHANGED <<cur, events, broker>>

\* C8: shutdown only calls close(): it sets no flag, resets no field and waits
\* for no call in flight.  An ingest call that reaches its send line after
\* close() makes its one send on the closed producer like any other call, and
\* ends like any other call (accepted, or the exception of the send handled).
C8_ClosedProducerStillUsed == []C8_ClosedStillUsed /\ [][C8_NoReset]_vars

\* a call that sent on the producer after shutdown had closed it and ended
C8_Witness ==
    \E i \in Calls :
       /\ events[i].producer = "closed"
       /\ events[i].attempts = 1
       /\ Returned(events[i])
       /\ kafka_producer.state = "closed"

----------------------------------------------------------------------------
(* C9 *)

SameKey(e1, e2) ==
    /\ IsCustomer(e1)
    /\ IsCustomer(e2)
    /\ e1.data.customer_id = e2.data.customer_id

\* C9 as claimed: messages of events with the same ordering key are in the
\* broker in the order their calls were submitted, concurrent callers included.
C9_Original ==
    \A j, k \in Msgs :
       (j < k /\ SameKey(events[broker[j].call], events[broker[k].call]))
         => broker[j].call < broker[k].call

C9_TailOnly ==
    \/ broker' = broker
    \/ \E t \in Callers :
          /\ pc[t] = "send"
          /\ MsgsOf(cur[t]) = {}
          /\ Len(broker') = Len(broker) + 1
          /\ SubSeq(broker', 1, Len(broker)) = broker
          /\ broker'[Len(broker')].call = cur[t]

C9_OncePerCall == \A i \in Calls : Cardinality(MsgsOf(i)) <= 1

\* C9: the pipeline orders nothing between concurrent callers.  What holds is
\* the order of calls made one after another: a message joins the send order
\* at its tail, at the moment its call makes its send, behind every message
\* sent before, and is never moved; each call sends at most once (there is no
\* retry to re-send).
C9_SequentialOrder == []C9_OncePerCall /\ [][C9_TailOnly]_vars

\* two events of one customer, sent in the order they were submitted
C9_Witness ==
    /\ Len(broker) = 2
    /\ SameKey(events[broker[1].call], events[broker[2].call])
    /\ broker[1].call < broker[2].call

----------------------------------------------------------------------------
(* C10 *)

\* C10: while kafka_producer is None, the ingest methods make no send and
\* raise no error to their callers, and shutdown does not call close().
C10_BeforeInitialize ==
    kafka_producer = None =>
       /\ broker = <<>>
       /\ \A t \in Callers : pc[t] \notin {"close", "close_log", "close_except"}
       /\ \A i \in Calls :
            /\ events[i].attempts = 0
            /\ events[i].status # "Sent"
            /\ events[i].producer \in {"unreached", "None"}
            /\ ~ErrorEscaped(events[i])

\* before any initialize_producer: a market signal ended at the missing
\* producer with its AttributeError logged, and an error of the tokenizer or
\* the model reached the caller of analyze_customer_behavior
C10_Witness ==
    /\ kafka_producer = None
    /\ \E i, j \in Calls :
          /\ events[i].op = "process_market_data"
          /\ events[i].error = "AttributeError"
          /\ events[i].status = "Failed"
          /\ IsCustomer(events[j])
          /\ ErrorEscaped(events[j])

====
